---- MODULE Spec2Model ----
(***************************************************************************)
(* A model of src/gpt2/gpt2_optimized.c: one forward pass of model(), the  *)
(* transformer block(), the tiled parallel scaled_dot_product_attention(), *)
(* linear(), norm(), gelu(), matrix_add() and the heap buffers they        *)
(* allocate, read, write and free.                                         *)
(*                                                                         *)
(* Arithmetic.  A float is modelled by an integer number of 1/Unit: sums   *)
(* and differences are exact, a product, a quotient and a square root are  *)
(* rounded down to the grid.  The rounding of float additions is therefore *)
(* not modelled.                                                            *)
(*                                                                         *)
(* Configuration.  The architecture constants are those of the reduced     *)
(* configuration of spec.md section 8 (embedding width 8, 2 heads, head    *)
(* width 4) instead of 768/12/64, with 2 blocks, a vocabulary of 3 and     *)
(* tiles of 3 x 3 instead of 64 x 64.  The relations the code relies on    *)
(* are kept: HEAD_DIM = EMBEDDING_SIZE / NUM_HEADS, HEAD_DIM and the       *)
(* layer widths are multiples of the 4 SIMD lanes, and the sequence        *)
(* lengths range below and at HEAD_DIM and below, at and above the tile    *)
(* size.                                                                   *)
(*                                                                         *)
(* Indices are 0-based as in the source: a vector is a function on         *)
(* 0..n-1, a matrix a function from rows to vectors.                       *)
(***************************************************************************)
EXTENDS Integers, Sequences, FiniteSets, TLC

VARIABLES
    pc,         \* control point of the call being executed
    caller,     \* who called scaled_dot_product_attention / linear
    seqLength,  \* argument of model() (of the attention call when it is called alone)
    tokens,     \* argument of model()
    weights,    \* the GPT2Weights argument
    blk,        \* loop index i of model()'s block loop
    hd,         \* loop index h of block()'s head loop
    T,          \* contents of the tensors of the running call, by name
    heap,       \* allocations: pointers, live/freed, accesses that went wrong
    att,        \* the parallel region of scaled_dot_product_attention
    lin,        \* a call of linear(): arguments, loop index, output, loads
    oob,        \* out-of-bounds accesses made so far
    hist        \* history: block inputs/outputs, values returned by over-reads

vars == <<pc, caller, seqLength, tokens, weights, blk, hd, T, heap, att, lin, oob, hist>>

-----------------------------------------------------------------------------
(* Bounds of the model *)

Unit == 4
MaxSeqLen == 4
NumWorkers == 2
MaxWeightKind == 1
MaxVal == 1
MaxLinOut == 2

(* Program constants *)

EPSILON == 1
EMBEDDING_SIZE == 8
NUM_BLOCKS == 2
NUM_HEADS == 2
HEAD_DIM == EMBEDDING_SIZE \div NUM_HEADS
VOCAB_SIZE == 3
MAX_POSITION_EMBEDDINGS == MaxSeqLen
block_size == 3
LANES == 4

-----------------------------------------------------------------------------
(* Float arithmetic on the grid of 1/Unit *)

One == Unit
Half == Unit \div 2

fmul(a, b) == (a * b) \div Unit

fdiv(a, b) == (a * Unit) \div b

isqrt(n) == CHOOSE r \in 0..n : r * r <= n /\ (r + 1) * (r + 1) > n

fsqrt(a) == isqrt(a * Unit)

RECURSIVE SumTo(_, _)
SumTo(f, k) == IF k = 0 THEN 0 ELSE f[k - 1] + SumTo(f, k - 1)

RECURSIVE Flat(_, _)
Flat(f, k) == IF k = 0 THEN <<>> ELSE Flat(f, k - 1) \o f[k - 1]

-----------------------------------------------------------------------------
(* linear(): the SIMD loads and the value of one output element *)

\* the indices j, j+1, j+2, j+3 loaded by the iterations j = 0, 4, 8, ... < n
LinearLoads(fcInputSize) ==
    Flat([c \in 0..((fcInputSize + LANES - 1) \div LANES) - 1 |->
            <<LANES * c, LANES * c + 1, LANES * c + 2, LANES * c + 3>>],
         (fcInputSize + LANES - 1) \div LANES)

\* one lane of the __m128 accumulator after the j loop
LaneAcc(a, b, n, lane) ==
    LET chunks == (n + LANES - 1) \div LANES
    IN  SumTo([c \in 0..chunks - 1 |-> fmul(a[LANES * c + lane], b[LANES * c + lane])],
              chunks)

LinearRow_DropLane(fcInput, wrow, bias, fcInputSize) ==
    LaneAcc(fcInput, wrow, fcInputSize, 0) + LaneAcc(fcInput, wrow, fcInputSize, 1)
    + LaneAcc(fcInput, wrow, fcInputSize, 2) + bias

LinearRow(fcInput, wrow, bias, fcInputSize) ==
    LaneAcc(fcInput, wrow, fcInputSize, 0) + LaneAcc(fcInput, wrow, fcInputSize, 1)
    + LaneAcc(fcInput, wrow, fcInputSize, 2) + LaneAcc(fcInput, wrow, fcInputSize, 3)
    + bias

linear(fcInput, w, biases, fcInputSize, fcOutputSize) ==
    [i \in 0..fcOutputSize - 1 |-> LinearRow(fcInput, w[i], biases[i], fcInputSize)]

ApplyLayer(v, layer) ==
    linear(v, layer.weights, layer.biases, layer.fcInputSize, layer.fcOutputSize)

-----------------------------------------------------------------------------
(* scaled_dot_product_attention(): scale factor, tiles, one cell *)

scale_factor(depth) == fdiv(One, fsqrt(depth * Unit))

\* the (bi, bj) pairs of the collapsed loop nest
Tiles(n) ==
    {<<bi, bj>> \in (0..n - 1) \X (0..n - 1) : bi % block_size = 0 /\ bj % block_size = 0}

\* the loop conditions of the two inner loops
RowInTile(bi, i, n) == i < bi + block_size /\ i < n

ColInTile_NoClamp(bj, j, n) == j < bj + block_size

ColInTile(bj, j, n) == j < bj + block_size /\ j < n

\* what the body of the j loop stores into output[i][j], and the output cells
\* it reads to do so (none); out is the output buffer as written so far
CellBody_ReadsLeft(Q, K, depth, out, i, j) ==
    [val   |-> fmul(LaneAcc(Q[i], K[j], depth, 0) + LaneAcc(Q[i], K[j], depth, 1)
                    + LaneAcc(Q[i], K[j], depth, 2) + LaneAcc(Q[i], K[j], depth, 3),
                    scale_factor(depth))
               + (IF <<i, j - 1>> \in DOMAIN out THEN out[<<i, j - 1>>].val ELSE 0),
     reads |-> IF j > 0 THEN {<<i, j - 1>>} ELSE {}]

CellBody_NoScale(Q, K, depth, out, i, j) ==
    [val   |-> LaneAcc(Q[i], K[j], depth, 0) + LaneAcc(Q[i], K[j], depth, 1)
               + LaneAcc(Q[i], K[j], depth, 2) + LaneAcc(Q[i], K[j], depth, 3),
     reads |-> {}]

CellBody(Q, K, depth, out, i, j) ==
    [val   |-> fmul(LaneAcc(Q[i], K[j], depth, 0) + LaneAcc(Q[i], K[j], depth, 1)
                    + LaneAcc(Q[i], K[j], depth, 2) + LaneAcc(Q[i], K[j], depth, 3),
                    scale_factor(depth)),
     reads |-> {}]

-----------------------------------------------------------------------------
(* matrix_add(), norm(), gelu(), positions_for() *)

matrix_add(x, y, numRow, numCol) ==
    [i \in 0..numRow - 1 |-> [j \in 0..numCol - 1 |-> x[i][j] + y[i][j]]]

NormRow(r, features) ==
    LET mean     == SumTo(r, features) \div features
        variance == SumTo([j \in 0..features - 1 |-> fmul(r[j] - mean, r[j] - mean)],
                          features) \div features
    IN  [j \in 0..features - 1 |-> fdiv(r[j] - mean, fsqrt(variance + EPSILON))]

norm(x, n, features) == [i \in 0..n - 1 |-> NormRow(x[i], features)]

gelu(x, size) == [i \in 0..size - 1 |-> fmul(x[i], Half)]

positions_for(n, past_length) == [i \in 0..n - 1 |-> past_length + i]

-----------------------------------------------------------------------------
(* The heap.  A buffer is named by the pointer expression that holds it:   *)
(* <<tensor, h, i>> is row i of head h of the tensor, with -1 for "none":  *)
(* <<"Q", -1, -1>> is the row-pointer array Q, <<"Q", -1, 2>> is Q[2],     *)
(* <<"Q_heads", 1, -1>> is Q_heads[1] and <<"Q_heads", 1, 2>> Q_heads[1][2]*)
(* ptr maps a pointer to the allocation it holds, st gives each            *)
(* allocation's state, bad collects the accesses that went wrong and wr    *)
(* the allocations written since block() was entered.                      *)

Sp(t) == <<t, -1, -1>>
Rw(t, i) == <<t, -1, i>>
HSp(t, h) == <<t, h, -1>>
HRw(t, h, i) == <<t, h, i>>

EmptyHeap == [ptr |-> <<>>, st |-> <<>>, bad |-> {}, wr |-> {}]

IsLive(hp, n) == n \in DOMAIN hp.ptr /\ hp.st[hp.ptr[n]] = "live"

Access(hp, kind, n) ==
    IF n \notin DOMAIN hp.ptr
    THEN [hp EXCEPT !.bad = @ \cup {<<"null", n>>}]
    ELSE IF hp.st[hp.ptr[n]] = "freed"
         THEN [hp EXCEPT !.bad = @ \cup {<<"use_after_free", n>>}]
         ELSE IF kind = "write" THEN [hp EXCEPT !.wr = @ \cup {hp.ptr[n]}] ELSE hp

HeapStep(hp, op) ==
    CASE op[1] = "alloc" ->
            [hp EXCEPT !.ptr = (op[2] :> (Len(hp.st) + 1)) @@ @,
                       !.st  = Append(@, "live")]
      [] op[1] = "free" ->
            IF op[2] \notin DOMAIN hp.ptr
            THEN [hp EXCEPT !.bad = @ \cup {<<"free_null", op[2]>>}]
            ELSE IF hp.st[hp.ptr[op[2]]] = "freed"
                 THEN [hp EXCEPT !.bad = @ \cup {<<"double_free", op[2]>>}]
                 ELSE [hp EXCEPT !.st[hp.ptr[op[2]]] = "freed"]
      [] op[1] = "move" ->
            IF op[3] \in DOMAIN hp.ptr
            THEN [hp EXCEPT !.ptr = (op[2] :> hp.ptr[op[3]]) @@ @]
            ELSE [hp EXCEPT !.bad = @ \cup {<<"null", op[3]>>}]
      [] OTHER -> Access(hp, op[1], op[2])

\* the heap after ops[lo..hi], run in order (the range is halved, and the first
\* half is evaluated before the second half starts)
RECURSIVE HeapRun(_, _, _, _)
HeapRun(hp, ops, lo, hi) ==
    IF lo > hi THEN hp
    ELSE IF lo = hi THEN HeapStep(hp, ops[lo])
    ELSE CHOOSE r \in {HeapRun(first, ops, ((lo + hi) \div 2) + 1, hi) :
                          first \in {HeapRun(hp, ops, lo, (lo + hi) \div 2)}} : TRUE

Do(hp, ops) == CHOOSE r \in {HeapRun(h0, o, 1, Len(o)) : h0 \in {hp}, o \in {ops}} : TRUE

\* ops for each row i of 0..n-1, in row order
PerRow(n, f(_)) == Flat([i \in 0..n - 1 |-> f(i)], n)

\* the allocations a matrix of n rows occupies: its row-pointer array and rows
MatNames(t, n) == {Sp(t)} \cup {Rw(t, i) : i \in 0..n - 1}

MatIds(hp, t, n) == {hp.ptr[m] : m \in MatNames(t, n) \cap DOMAIN hp.ptr}

\* pointer assignment dst = src of a float** of n rows
MoveMat(dst, src, n) ==
    <<<<"move", Sp(dst), Sp(src)>>>> \o PerRow(n, LAMBDA i : <<<<"move", Rw(dst, i), Rw(src, i)>>>>)

-----------------------------------------------------------------------------
(* Inputs: the weight sets, token sequences and per-head matrices the      *)
(* initial states draw from                                                *)

Garbage == {0, One}

WPat(kind, i, j) ==
    IF kind = 0 THEN 0
    ELSE IF kind = 1
         THEN (IF (i - j) % EMBEDDING_SIZE = 0 THEN One ELSE ((i + 2 * j) % 3) - 1)
         ELSE ((kind * i + j) % 5) - 2

BPat(kind, i) == IF kind = 0 THEN 0 ELSE ((kind + i) % 3) - 1

MkLayer(kind, shift, inSize, outSize) ==
    [weights      |-> [i \in 0..outSize - 1 |-> [j \in 0..inSize - 1 |-> WPat(kind, i + shift, j)]],
     biases       |-> [i \in 0..outSize - 1 |-> BPat(kind, i + shift)],
     fcInputSize  |-> inSize,
     fcOutputSize |-> outSize]

\* the shapes are those initialize_weights() gives the layers
MkBlock(ka, kf, b) ==
    [q_mlp            |-> MkLayer(ka, b, EMBEDDING_SIZE, EMBEDDING_SIZE),
     k_mlp            |-> MkLayer(ka, b + 1, EMBEDDING_SIZE, EMBEDDING_SIZE),
     v_mlp            |-> MkLayer(ka, b + 2, EMBEDDING_SIZE, EMBEDDING_SIZE),
     first_block_MLP  |-> MkLayer(1, b, EMBEDDING_SIZE, EMBEDDING_SIZE * 4),
     second_block_MLP |-> MkLayer(kf, b, EMBEDDING_SIZE * 4, EMBEDDING_SIZE)]

MkWeights(ka, kf) ==
    [wte        |-> [t \in 0..VOCAB_SIZE - 1 |->
                        [j \in 0..EMBEDDING_SIZE - 1 |-> (((t + 1) * (j + 1)) % 7) - 3]],
     wpe        |-> [q \in 0..MAX_POSITION_EMBEDDINGS - 1 |->
                        [j \in 0..EMBEDDING_SIZE - 1 |-> ((q + 2 * j) % 5) - 2]],
     blocks     |-> [b \in 0..NUM_BLOCKS - 1 |-> MkBlock(ka, kf, b)],
     logits_mlp |-> MkLayer(1, 0, EMBEDDING_SIZE, VOCAB_SIZE)]

WeightSets == {MkWeights(ka, kf) : ka \in 0..MaxWeightKind, kf \in 0..MaxWeightKind}

TokenSeqs(n) == {[i \in 0..n - 1 |-> (t0 + i) % VOCAB_SIZE] : t0 \in 0..VOCAB_SIZE - 1}

\* a matrix of n rows and d columns with entries in -MaxVal*Unit .. MaxVal*Unit
PatMat(q, n, d) ==
    [i \in 0..n - 1 |->
        [k \in 0..d - 1 |->
            (((q + 1) * i + (q + 2) * k + q) % (2 * MaxVal * Unit + 1)) - MaxVal * Unit]]

PatVec(q, d) == PatMat(q, 1, d)[0]

Pats == 0..MaxVal

Depths == {LANES, 2 * LANES}

IsZeroLayer(l) ==
    /\ \A i \in 0..l.fcOutputSize - 1 : l.biases[i] = 0
    /\ \A i \in 0..l.fcOutputSize - 1 : \A j \in 0..l.fcInputSize - 1 : l.weights[i][j] = 0

-----------------------------------------------------------------------------
(* Initial states *)

EmptyT ==
    [positions |-> <<>>, h |-> <<>>, x |-> <<>>, normalized_x |-> <<>>,
     Q |-> <<>>, K |-> <<>>, V |-> <<>>,
     Q_heads |-> <<>>, K_heads |-> <<>>, V_heads |-> <<>>, head_outputs |-> <<>>,
     a |-> <<>>, x_added |-> <<>>, normalized_x_added |-> <<>>, m |-> <<>>,
     output |-> <<>>, new_h |-> <<>>, logits |-> <<>>]

IdleAtt ==
    [Q |-> <<>>, K |-> <<>>, V |-> <<>>, n |-> 0, depth |-> 0,
     pending |-> {}, wk |-> <<>>, out |-> <<>>, reads |-> {}]

IdleLin ==
    [fcInput |-> <<>>, w |-> <<>>, biases |-> <<>>, n |-> 0, m |-> 0,
     i |-> 0, output |-> <<>>, loads |-> <<>>]

EmptyHist == [xin |-> <<>>, xout |-> <<>>, garb |-> <<>>]

\* the weight set is allocated by initialize_weights() before model() is called
WeightsBuf == Sp("weights")

\* main() has built the weights and calls model(tokens, seqLength, weights)
Init ==
    /\ pc = "m_pos"
    /\ caller = "main"
    /\ seqLength \in 1..MAX_POSITION_EMBEDDINGS
    /\ tokens \in TokenSeqs(seqLength)
    /\ weights \in WeightSets
    /\ blk = 0
    /\ hd = 0
    /\ T = EmptyT
    /\ heap = Do(EmptyHeap, <<<<"alloc", WeightsBuf>>>>)
    /\ att = IdleAtt
    /\ lin = IdleLin
    /\ oob = {}
    /\ hist = EmptyHist

\* the per-head buffers block() has built when it calls the attention
HeadArgOps(n) ==
    <<<<"alloc", HSp("Q_heads", 0)>>, <<"alloc", HSp("K_heads", 0)>>,
      <<"alloc", HSp("V_heads", 0)>>>>
    \o PerRow(n, LAMBDA i : <<<<"alloc", HRw("Q_heads", 0, i)>>,
                              <<"alloc", HRw("K_heads", 0, i)>>,
                              <<"alloc", HRw("V_heads", 0, i)>>>>)

\* a call scaled_dot_product_attention(Q, K, V, seqLength, depth) on its own
InitAttn ==
    /\ pc = "s_alloc"
    /\ caller = "test"
    /\ seqLength \in 1..MaxSeqLen
    /\ tokens = <<>>
    /\ weights = <<>>
    /\ blk = 0
    /\ hd = 0
    /\ T = EmptyT
    /\ heap = Do(EmptyHeap, HeadArgOps(seqLength))
    /\ \E depth \in Depths : \E p \in Pats : \E vp \in {2, 3} :
          att = [IdleAtt EXCEPT !.Q = PatMat(p, seqLength, depth),
                                !.K = PatMat(p + 1, seqLength, depth),
                                !.V = PatMat(vp, seqLength, depth),
                                !.n = seqLength,
                                !.depth = depth]
    /\ lin = IdleLin
    /\ oob = {}
    /\ hist = EmptyHist

\* a call linear(fcInput, weights, biases, n, m) on its own, n a multiple of 4
InitLinear ==
    /\ pc = "l_loop"
    /\ caller = "test"
    /\ seqLength = 0
    /\ tokens = <<>>
    /\ weights = <<>>
    /\ blk = 0
    /\ hd = 0
    /\ T = EmptyT
    /\ heap = Do(EmptyHeap, <<<<"alloc", Sp("fcInput")>>, <<"alloc", WeightsBuf>>>>)
    /\ att = IdleAtt
    /\ \E n \in Depths : \E m \in 1..MaxLinOut : \E ip \in Pats, wp \in Pats, bp \in Pats :
          lin = [IdleLin EXCEPT !.fcInput = PatVec(ip, n),
                                !.w = PatMat(wp + 1, m, n),
                                !.biases = PatVec(bp + 2, m),
                                !.n = n,
                                !.m = m]
    /\ oob = {}
    /\ hist = EmptyHist

-----------------------------------------------------------------------------
(* model(): positions, embedding *)

\* the indices a call of linear() loads that lie outside a vector of len elements
LinearOob(what, row, fcInputSize, len) ==
    {<<what, row, LinearLoads(fcInputSize)[k], len>> :
        k \in {k \in 1..Len(LinearLoads(fcInputSize)) : LinearLoads(fcInputSize)[k] >= len}}

\* linear(src, ...) stored into dst: malloc of the output, loads, stores
LinearOps(src, dst) ==
    <<<<"alloc", dst>>, <<"read", src>>, <<"read", WeightsBuf>>, <<"write", dst>>>>

\* lines 384-385 and 230-238: int *positions = positions_for(tokens, seqLength, 0)
model_positions ==
    /\ pc = "m_pos"
    /\ T' = [T EXCEPT !.positions = positions_for(seqLength, 0)]
    /\ heap' = Do(heap, <<<<"alloc", Sp("positions")>>, <<"write", Sp("positions")>>>>)
    /\ pc' = "m_embed"
    /\ UNCHANGED <<caller, seqLength, tokens, weights, blk, hd, att, lin, oob, hist>>

EmbedOps(n) ==
    <<<<"alloc", Sp("h")>>>>
    \o PerRow(n, LAMBDA i : <<<<"alloc", Rw("h", i)>>, <<"write", Sp("h")>>,
                              <<"read", Sp("positions")>>, <<"read", WeightsBuf>>,
                              <<"read", Sp("h")>>, <<"write", Rw("h", i)>>>>)

Embed(tok, pos, w, n) ==
    [i \in 0..n - 1 |->
        [j \in 0..EMBEDDING_SIZE - 1 |-> w.wte[tok[i]][j] + w.wpe[pos[i]][j]]]

\* lines 388-397: h[i][j] = wte[tokens[i]][j] + wpe[positions[i]][j]
model_embed ==
    /\ pc = "m_embed"
    /\ T' = [T EXCEPT !.h = Embed(tokens, T.positions, weights, seqLength)]
    /\ heap' = Do(heap, EmbedOps(seqLength))
    /\ pc' = "m_free_positions"
    /\ UNCHANGED <<caller, seqLength, tokens, weights, blk, hd, att, lin, oob, hist>>

\* line 400: free(positions)
model_free_positions ==
    /\ pc = "m_free_positions"
    /\ heap' = Do(heap, <<<<"free", Sp("positions")>>>>)
    /\ pc' = "m_loop"
    /\ UNCHANGED <<caller, seqLength, tokens, weights, blk, hd, T, att, lin, oob, hist>>

\* lines 403-405: the call block(h, seqLength, EMBEDDING_SIZE, weights.blocks[i])
model_call_block ==
    /\ pc = "m_loop"
    /\ blk < NUM_BLOCKS
    /\ T' = [T EXCEPT !.x = T.h]
    /\ heap' = [Do(heap, MoveMat("x", "h", seqLength)) EXCEPT !.wr = {}]
    /\ hist' = [hist EXCEPT !.xin = Append(@, [data |-> T.h,
                                               ids  |-> MatIds(heap, "h", seqLength),
                                               blk  |-> blk,
                                               base |-> Len(heap.st)])]
    /\ pc' = "b_norm1"
    /\ UNCHANGED <<caller, seqLength, tokens, weights, blk, hd, att, lin, oob>>

-----------------------------------------------------------------------------
(* block(): normalisation, projections, split into heads *)

BW == weights.blocks[blk]

\* norm(src, ...) stored into dst (lines 182-210)
NormOps(src, dst, n) ==
    <<<<"alloc", Sp(dst)>>>>
    \o PerRow(n, LAMBDA i : <<<<"alloc", Rw(dst, i)>>, <<"write", Sp(dst)>>,
                              <<"read", Sp(src)>>, <<"read", Rw(src, i)>>,
                              <<"read", Sp(dst)>>, <<"write", Rw(dst, i)>>>>)

\* line 251: normalized_x = norm(x, seqLength, embeddingSize)
block_norm1 ==
    /\ pc = "b_norm1"
    /\ T' = [T EXCEPT !.normalized_x = norm(T.x, seqLength, EMBEDDING_SIZE)]
    /\ heap' = Do(heap, NormOps("x", "normalized_x", seqLength))
    /\ pc' = "b_qkv"
    /\ UNCHANGED <<caller, seqLength, tokens, weights, blk, hd, att, lin, oob, hist>>

QkvOps(n) ==
    <<<<"alloc", Sp("Q")>>, <<"alloc", Sp("K")>>, <<"alloc", Sp("V")>>>>
    \o PerRow(n, LAMBDA i :
            <<<<"read", Sp("normalized_x")>>>> \o LinearOps(Rw("normalized_x", i), Rw("Q", i))
            \o <<<<"write", Sp("Q")>>, <<"read", Sp("normalized_x")>>>>
            \o LinearOps(Rw("normalized_x", i), Rw("K", i))
            \o <<<<"write", Sp("K")>>, <<"read", Sp("normalized_x")>>>>
            \o LinearOps(Rw("normalized_x", i), Rw("V", i))
            \o <<<<"write", Sp("V")>>>>)

\* lines 254-262: Q[i], K[i], V[i] = linear(normalized_x[i], ...)
block_qkv ==
    /\ pc = "b_qkv"
    /\ T' = [T EXCEPT
                !.Q = [i \in 0..seqLength - 1 |-> ApplyLayer(T.normalized_x[i], BW.q_mlp)],
                !.K = [i \in 0..seqLength - 1 |-> ApplyLayer(T.normalized_x[i], BW.k_mlp)],
                !.V = [i \in 0..seqLength - 1 |-> ApplyLayer(T.normalized_x[i], BW.v_mlp)]]
    /\ heap' = Do(heap, QkvOps(seqLength))
    /\ oob' = oob \cup UNION {LinearOob("qkv", i, BW.q_mlp.fcInputSize, EMBEDDING_SIZE)
                               \cup LinearOob("qkv", i, BW.k_mlp.fcInputSize, EMBEDDING_SIZE)
                               \cup LinearOob("qkv", i, BW.v_mlp.fcInputSize, EMBEDDING_SIZE)
                              : i \in 0..seqLength - 1}
    /\ pc' = "b_split"
    /\ UNCHANGED <<caller, seqLength, tokens, weights, blk, hd, att, lin, hist>>

\* memcpy(X_heads[h][i], &X[i][h * HEAD_DIM], HEAD_DIM * sizeof(float))
SplitHeads(X, n) ==
    [h \in 0..NUM_HEADS - 1 |->
        [i \in 0..n - 1 |-> [c \in 0..HEAD_DIM - 1 |-> X[i][h * HEAD_DIM + c]]]]

\* source indices of the split that lie outside a row of width columns
SplitOob(n, width) ==
    {<<"split", h, i, h * HEAD_DIM + c>> :
        <<h, i, c>> \in {t \in (0..NUM_HEADS - 1) \X (0..n - 1) \X (0..HEAD_DIM - 1) :
                            t[1] * HEAD_DIM + t[3] >= width}}

SplitOps(n) ==
    <<<<"alloc", Sp("Q_heads")>>, <<"alloc", Sp("K_heads")>>, <<"alloc", Sp("V_heads")>>>>
    \o Flat([h \in 0..NUM_HEADS - 1 |->
            <<<<"alloc", HSp("Q_heads", h)>>, <<"write", Sp("Q_heads")>>,
              <<"alloc", HSp("K_heads", h)>>, <<"write", Sp("K_heads")>>,
              <<"alloc", HSp("V_heads", h)>>, <<"write", Sp("V_heads")>>>>
            \o PerRow(n, LAMBDA i :
                <<<<"alloc", HRw("Q_heads", h, i)>>, <<"write", HSp("Q_heads", h)>>,
                  <<"alloc", HRw("K_heads", h, i)>>, <<"write", HSp("K_heads", h)>>,
                  <<"alloc", HRw("V_heads", h, i)>>, <<"write", HSp("V_heads", h)>>,
                  <<"read", Sp("Q")>>, <<"read", Rw("Q", i)>>, <<"write", HRw("Q_heads", h, i)>>,
                  <<"read", Sp("K")>>, <<"read", Rw("K", i)>>, <<"write", HRw("K_heads", h, i)>>,
                  <<"read", Sp("V")>>, <<"read", Rw("V", i)>>, <<"write", HRw("V_heads", h, i)>>>>)],
            NUM_HEADS)

\* lines 266-284: Q_heads, K_heads, V_heads
block_split ==
    /\ pc = "b_split"
    /\ T' = [T EXCEPT !.Q_heads = SplitHeads(T.Q, seqLength),
                      !.K_heads = SplitHeads(T.K, seqLength),
                      !.V_heads = SplitHeads(T.V, seqLength)]
    /\ heap' = Do(heap, SplitOps(seqLength))
    /\ oob' = oob \cup SplitOob(seqLength, BW.q_mlp.fcOutputSize)
    /\ pc' = "b_heads_alloc"
    /\ UNCHANGED <<caller, seqLength, tokens, weights, blk, hd, att, lin, hist>>

\* line 287: head_outputs = malloc(NUM_HEADS * sizeof(float **)), and h = 0
block_heads_alloc ==
    /\ pc = "b_heads_alloc"
    /\ heap' = Do(heap, <<<<"alloc", Sp("head_outputs")>>>>)
    /\ hd' = 0
    /\ T' = [T EXCEPT !.head_outputs = <<>>]
    /\ pc' = "b_heads"
    /\ UNCHANGED <<caller, seqLength, tokens, weights, blk, att, lin, oob, hist>>

\* lines 291-294: the call scaled_dot_product_attention(Q_heads[h], K_heads[h],
\* V_heads[h], seqLength, HEAD_DIM)
block_call_attention ==
    /\ pc = "b_heads"
    /\ hd < NUM_HEADS
    /\ att' = [IdleAtt EXCEPT !.Q = T.Q_heads[hd], !.K = T.K_heads[hd], !.V = T.V_heads[hd],
                              !.n = seqLength, !.depth = HEAD_DIM]
    /\ heap' = Do(heap, <<<<"read", Sp("Q_heads")>>, <<"read", Sp("K_heads")>>,
                          <<"read", Sp("V_heads")>>>>)
    /\ caller' = "block"
    /\ pc' = "s_alloc"
    /\ UNCHANGED <<seqLength, tokens, weights, blk, hd, T, lin, oob, hist>>

-----------------------------------------------------------------------------
(* scaled_dot_product_attention(): allocation, the parallel tiled loop     *)
(* (each worker of the team takes a (bi, bj) tile and runs its cells one   *)
(* by one, interleaved with the other workers), the barrier and the return *)
(* The local float **output is named head_outputs[h], the pointer the      *)
(* caller stores it in.                                                    *)

Workers == 1..NumWorkers

IdleWorker == [busy |-> FALSE, bi |-> 0, bj |-> 0, i |-> 0, j |-> 0]

SdpaAllocOps(h, n) ==
    <<<<"alloc", HSp("head_outputs", h)>>>>
    \o PerRow(n, LAMBDA i : <<<<"alloc", HRw("head_outputs", h, i)>>,
                              <<"write", HSp("head_outputs", h)>>>>)

\* lines 104-112: output and its rows, scale_factor, block_size
sdpa_alloc ==
    /\ pc = "s_alloc"
    /\ heap' = Do(heap, SdpaAllocOps(hd, att.n))
    /\ att' = [att EXCEPT !.pending = Tiles(att.n),
                          !.wk = [w \in Workers |-> IdleWorker],
                          !.out = <<>>,
                          !.reads = {}]
    /\ pc' = "s_par"
    /\ UNCHANGED <<caller, seqLength, tokens, weights, blk, hd, T, lin, oob, hist>>

\* lines 115-120: schedule(dynamic) hands a pending (bi, bj) to an idle worker
sdpa_take_tile(w) ==
    /\ pc = "s_par"
    /\ ~att.wk[w].busy
    /\ \E t \in att.pending :
          att' = [att EXCEPT !.pending = @ \ {t},
                             !.wk[w] = [busy |-> TRUE, bi |-> t[1], bj |-> t[2],
                                        i |-> t[1], j |-> t[2]]]
    /\ UNCHANGED <<pc, caller, seqLength, tokens, weights, blk, hd, T, heap, lin, oob, hist>>

\* the loop indices after the body ran for (i, j): j++, else i++ and j = bj,
\* else the tile is finished
AfterCell(k, n) ==
    IF ColInTile(k.bj, k.j + 1, n) THEN [k EXCEPT !.j = k.j + 1]
    ELSE IF RowInTile(k.bi, k.i + 1, n) THEN [k EXCEPT !.i = k.i + 1, !.j = k.bj]
    ELSE IdleWorker

CellOps(h, i, j) ==
    <<<<"read", HSp("Q_heads", h)>>, <<"read", HRw("Q_heads", h, i)>>,
      <<"read", HSp("K_heads", h)>>, <<"read", HRw("K_heads", h, j)>>,
      <<"read", HSp("head_outputs", h)>>, <<"write", HRw("head_outputs", h, i)>>>>

\* lines 122-145: one iteration of the j loop by worker w: output[i][j] = dot * scale
sdpa_cell(w) ==
    /\ pc = "s_par"
    /\ att.wk[w].busy
    /\ LET k     == att.wk[w]
           inQK  == k.i \in DOMAIN att.Q /\ k.j \in DOMAIN att.K
           cell  == IF inQK THEN CellBody(att.Q, att.K, att.depth, att.out, k.i, k.j)
                    ELSE [val |-> 0, reads |-> {}]
           prev  == IF <<k.i, k.j>> \in DOMAIN att.out
                    THEN att.out[<<k.i, k.j>>]
                    ELSE [val |-> 0, n |-> 0, by |-> {}]
       IN  /\ att' = [att EXCEPT
                        !.out = (<<k.i, k.j>> :> [val |-> cell.val,
                                                  n   |-> prev.n + 1,
                                                  by  |-> prev.by \cup {<<k.bi, k.bj>>}]) @@ @,
                        !.reads = @ \cup {<<w, c>> : c \in cell.reads},
                        !.wk[w] = AfterCell(k, att.n)]
           /\ heap' = Do(heap, CellOps(hd, k.i, k.j))
           /\ oob' = oob \cup (IF k.i \in 0..att.n - 1 /\ k.j \in 0..att.n - 1 THEN {}
                               ELSE {<<"sdpa_store", hd, k.i, k.j>>})
                         \cup (IF inQK
                               THEN LinearOob("sdpa_load", k.i, att.depth, Cardinality(DOMAIN att.Q[k.i]))
                                    \cup LinearOob("sdpa_load", k.j, att.depth, Cardinality(DOMAIN att.K[k.j]))
                               ELSE {<<"sdpa_load", hd, k.i, k.j>>})
    /\ UNCHANGED <<pc, caller, seqLength, tokens, weights, blk, hd, T, lin, hist>>

\* the matrix the call returns: the cells as stored; a cell never stored holds
\* whatever malloc left there
OutMatrix(out, n, g) ==
    [i \in 0..n - 1 |-> [j \in 0..n - 1 |->
        IF <<i, j>> \in DOMAIN out THEN out[<<i, j>>].val ELSE g]]

AllTilesDone == att.pending = {} /\ \A w \in Workers : ~att.wk[w].busy

\* line 148 (the barrier ending the parallel region), line 150 (return output) and,
\* in block(), line 294 (head_outputs[h] = ...) and h++
sdpa_return ==
    /\ pc = "s_par"
    /\ AllTilesDone
    /\ \E g \in Garbage :
          T' = [T EXCEPT !.head_outputs = (hd :> OutMatrix(att.out, att.n, g)) @@ @]
    /\ IF caller = "block"
       THEN /\ heap' = Do(heap, <<<<"write", Sp("head_outputs")>>>>)
            /\ hd' = hd + 1
            /\ pc' = "b_heads"
       ELSE /\ pc' = "done"
            /\ UNCHANGED <<heap, hd>>
    /\ UNCHANGED <<caller, seqLength, tokens, weights, blk, att, lin, oob, hist>>

-----------------------------------------------------------------------------
(* block(): concatenation of the heads *)

\* the elements memcpy(&a[i][h * HEAD_DIM], head_outputs[h][i], HEAD_DIM * 4)
\* reads past the end of the row head_outputs[h][i]
ConcatOob(ho, n) ==
    {<<"concat", t[1], t[2], t[3]>> :
        t \in {t \in (0..NUM_HEADS - 1) \X (0..n - 1) \X (0..HEAD_DIM - 1) :
                    t[3] \notin DOMAIN ho[t[1]][t[2]]}}

\* a[i][h * HEAD_DIM + c] = head_outputs[h][i][c]; an element read past the end
\* of the row has the value g[h] found there
Concat(ho, n, embeddingSize, g) ==
    [i \in 0..n - 1 |->
        [col \in 0..embeddingSize - 1 |->
            IF (col % HEAD_DIM) \in DOMAIN ho[col \div HEAD_DIM][i]
            THEN ho[col \div HEAD_DIM][i][col % HEAD_DIM]
            ELSE g[col \div HEAD_DIM]]]

NoGarbage == [h \in 0..NUM_HEADS - 1 |-> 0]

OverReads(ho, n) == IF ConcatOob(ho, n) = {} THEN {NoGarbage} ELSE [0..NUM_HEADS - 1 -> Garbage]

ConcatOps(n) ==
    <<<<"alloc", Sp("a")>>>>
    \o PerRow(n, LAMBDA i :
            <<<<"alloc", Rw("a", i)>>, <<"write", Sp("a")>>>>
            \o Flat([h \in 0..NUM_HEADS - 1 |->
                    <<<<"read", Sp("head_outputs")>>, <<"read", HSp("head_outputs", h)>>,
                      <<"read", HRw("head_outputs", h, i)>>,
                      <<"read", Sp("a")>>, <<"write", Rw("a", i)>>>>], NUM_HEADS))

\* lines 298-306; when the copy reads past a row, the values it finds there are
\* any values
block_concat ==
    /\ pc = "b_heads"
    /\ hd = NUM_HEADS
    /\ \E g \in OverReads(T.head_outputs, seqLength) :
          /\ T' = [T EXCEPT !.a = Concat(T.head_outputs, seqLength, EMBEDDING_SIZE, g)]
          /\ hist' = [hist EXCEPT !.garb = Append(@, g)]
    /\ heap' = Do(heap, ConcatOps(seqLength))
    /\ oob' = oob \cup ConcatOob(T.head_outputs, seqLength)
    /\ pc' = "b_add1"
    /\ UNCHANGED <<caller, seqLength, tokens, weights, blk, hd, att, lin>>

\* lines 298-306 when the read past a row touches memory that is not mapped, or
\* the build checks heap accesses: the process is killed
block_concat_fault ==
    /\ pc = "b_heads"
    /\ hd = NUM_HEADS
    /\ ConcatOob(T.head_outputs, seqLength) # {}
    /\ oob' = oob \cup ConcatOob(T.head_outputs, seqLength)
    /\ pc' = "fault"
    /\ UNCHANGED <<caller, seqLength, tokens, weights, blk, hd, T, heap, att, lin, hist>>

-----------------------------------------------------------------------------
(* block(): residual adds, second normalisation, feed-forward, frees *)

\* matrix_add(p, q, ...) stored into dst (lines 154-179)
AddOps(p, q, dst, n) ==
    <<<<"alloc", Sp(dst)>>>>
    \o PerRow(n, LAMBDA i : <<<<"alloc", Rw(dst, i)>>, <<"write", Sp(dst)>>,
                              <<"read", Sp(p)>>, <<"read", Rw(p, i)>>,
                              <<"read", Sp(q)>>, <<"read", Rw(q, i)>>,
                              <<"read", Sp(dst)>>, <<"write", Rw(dst, i)>>>>)

\* the first residual connection, line 309: x_added = matrix_add(x, a, ...)
Residual1_FromNormalized(t, n, embeddingSize) ==
    matrix_add(t.normalized_x, t.a, n, embeddingSize)

Residual1(t, n, embeddingSize) == matrix_add(t.x, t.a, n, embeddingSize)

block_add1 ==
    /\ pc = "b_add1"
    /\ T' = [T EXCEPT !.x_added = Residual1(T, seqLength, EMBEDDING_SIZE)]
    /\ heap' = Do(heap, AddOps("x", "a", "x_added", seqLength))
    /\ pc' = "b_norm2"
    /\ UNCHANGED <<caller, seqLength, tokens, weights, blk, hd, att, lin, oob, hist>>

\* line 312: normalized_x_added = norm(x_added, seqLength, embeddingSize)
block_norm2 ==
    /\ pc = "b_norm2"
    /\ T' = [T EXCEPT !.normalized_x_added = norm(T.x_added, seqLength, EMBEDDING_SIZE)]
    /\ heap' = Do(heap, NormOps("x_added", "normalized_x_added", seqLength))
    /\ pc' = "b_mlp"
    /\ UNCHANGED <<caller, seqLength, tokens, weights, blk, hd, att, lin, oob, hist>>

\* one iteration of the loop of lines 317-333
MlpRowOps_FreeEarly(i) ==
    <<<<"read", Sp("normalized_x_added")>>>>
    \o LinearOps(Rw("normalized_x_added", i), Sp("first_mlp_out"))
    \o <<<<"alloc", Sp("gelu_out")>>, <<"read", Sp("first_mlp_out")>>,
         <<"write", Sp("gelu_out")>>,
         <<"free", Sp("first_mlp_out")>>,
         <<"free", Sp("gelu_out")>>>>
    \o LinearOps(Sp("gelu_out"), Rw("m", i))
    \o <<<<"write", Sp("m")>>>>

MlpRowOps(i) ==
    <<<<"read", Sp("normalized_x_added")>>>>
    \o LinearOps(Rw("normalized_x_added", i), Sp("first_mlp_out"))
    \o <<<<"alloc", Sp("gelu_out")>>, <<"read", Sp("first_mlp_out")>>,
         <<"write", Sp("gelu_out")>>,
         <<"free", Sp("first_mlp_out")>>>>
    \o LinearOps(Sp("gelu_out"), Rw("m", i))
    \o <<<<"write", Sp("m")>>,
         <<"free", Sp("gelu_out")>>>>

MlpOps(n) == <<<<"alloc", Sp("m")>>>> \o PerRow(n, MlpRowOps)

\* m[i] = linear(gelu(linear(normalized_x_added[i], first), ...), second)
MlpRow(v, bw) ==
    ApplyLayer(gelu(ApplyLayer(v, bw.first_block_MLP), bw.first_block_MLP.fcOutputSize),
               bw.second_block_MLP)

\* lines 315-333: the two-layer MLP of every position
block_mlp ==
    /\ pc = "b_mlp"
    /\ T' = [T EXCEPT !.m = [i \in 0..seqLength - 1 |-> MlpRow(T.normalized_x_added[i], BW)]]
    /\ heap' = Do(heap, MlpOps(seqLength))
    /\ oob' = oob \cup UNION {LinearOob("mlp1", i, BW.first_block_MLP.fcInputSize, EMBEDDING_SIZE)
                               \cup LinearOob("mlp2", i, BW.second_block_MLP.fcInputSize,
                                              BW.first_block_MLP.fcOutputSize)
                              : i \in 0..seqLength - 1}
    /\ pc' = "b_add2"
    /\ UNCHANGED <<caller, seqLength, tokens, weights, blk, hd, att, lin, hist>>

\* line 336: output = matrix_add(x_added, m, seqLength, embeddingSize)
block_add2 ==
    /\ pc = "b_add2"
    /\ T' = [T EXCEPT !.output = matrix_add(T.x_added, T.m, seqLength, EMBEDDING_SIZE)]
    /\ heap' = Do(heap, AddOps("x_added", "m", "output", seqLength))
    /\ pc' = "b_free"
    /\ UNCHANGED <<caller, seqLength, tokens, weights, blk, hd, att, lin, oob, hist>>

FreeRow(t, i) == <<<<"read", Sp(t)>>, <<"free", Rw(t, i)>>>>

FreeHeadRow(t, h, i) ==
    <<<<"read", Sp(t)>>, <<"read", HSp(t, h)>>, <<"free", HRw(t, h, i)>>>>

FreeHead(t, h) == <<<<"read", Sp(t)>>, <<"free", HSp(t, h)>>>>

\* lines 339-375, in the order of the source
BlockFreeOps(n) ==
    PerRow(n, LAMBDA i : FreeRow("normalized_x", i) \o FreeRow("Q", i) \o FreeRow("K", i)
                         \o FreeRow("V", i) \o FreeRow("normalized_x_added", i)
                         \o FreeRow("m", i) \o FreeRow("x_added", i))
    \o <<<<"free", Sp("normalized_x")>>, <<"free", Sp("Q")>>, <<"free", Sp("K")>>,
         <<"free", Sp("V")>>, <<"free", Sp("normalized_x_added")>>, <<"free", Sp("m")>>,
         <<"free", Sp("x_added")>>>>
    \o Flat([h \in 0..NUM_HEADS - 1 |->
            PerRow(n, LAMBDA i : FreeHeadRow("Q_heads", h, i) \o FreeHeadRow("K_heads", h, i)
                                 \o FreeHeadRow("V_heads", h, i)
                                 \o FreeHeadRow("head_outputs", h, i))
            \o FreeHead("Q_heads", h) \o FreeHead("K_heads", h) \o FreeHead("V_heads", h)
            \o FreeHead("head_outputs", h)], NUM_HEADS)
    \o <<<<"free", Sp("Q_heads")>>, <<"free", Sp("K_heads")>>, <<"free", Sp("V_heads")>>,
         <<"free", Sp("head_outputs")>>>>

block_free ==
    /\ pc = "b_free"
    /\ heap' = Do(heap, BlockFreeOps(seqLength))
    /\ pc' = "b_ret"
    /\ UNCHANGED <<caller, seqLength, tokens, weights, blk, hd, T, att, lin, oob, hist>>

\* line 377 and line 405: return output; float **new_h = block(...)
block_return ==
    /\ pc = "b_ret"
    /\ T' = [T EXCEPT !.new_h = T.output]
    /\ heap' = Do(heap, MoveMat("new_h", "output", seqLength))
    /\ hist' = [hist EXCEPT !.xout = Append(@, [data |-> T.output,
                                                ids  |-> MatIds(heap, "output", seqLength)])]
    /\ pc' = "m_swap"
    /\ UNCHANGED <<caller, seqLength, tokens, weights, blk, hd, att, lin, oob>>

-----------------------------------------------------------------------------
(* model(): the block loop, the logits, the return *)

FreeMatOps(t, n) == PerRow(n, LAMBDA j : FreeRow(t, j)) \o <<<<"free", Sp(t)>>>>

\* lines 407-412: free the previous h, h = new_h, i++
model_swap ==
    /\ pc = "m_swap"
    /\ T' = [T EXCEPT !.h = T.new_h]
    /\ heap' = Do(heap, FreeMatOps("h", seqLength) \o MoveMat("h", "new_h", seqLength))
    /\ blk' = blk + 1
    /\ pc' = "m_loop"
    /\ UNCHANGED <<caller, seqLength, tokens, weights, hd, att, lin, oob, hist>>

\* the row of h the logits are computed from
LogitsRow_First(n) == 0

LogitsRow(n) == n - 1

\* lines 416-417: logits = linear(h[seqLength - 1], logits_mlp...)
model_logits ==
    /\ pc = "m_loop"
    /\ blk = NUM_BLOCKS
    /\ T' = [T EXCEPT !.logits = ApplyLayer(T.h[LogitsRow(seqLength)], weights.logits_mlp)]
    /\ heap' = Do(heap, <<<<"read", Sp("h")>>>>
                        \o LinearOps(Rw("h", LogitsRow(seqLength)), Sp("logits")))
    /\ oob' = oob \cup LinearOob("logits", LogitsRow(seqLength),
                                 weights.logits_mlp.fcInputSize, EMBEDDING_SIZE)
                  \cup (IF LogitsRow(seqLength) \in 0..seqLength - 1 THEN {}
                        ELSE {<<"logits_row", 0, LogitsRow(seqLength), seqLength>>})
    /\ pc' = "m_free_h"
    /\ UNCHANGED <<caller, seqLength, tokens, weights, blk, hd, att, lin, hist>>

\* lines 420-424: free h
model_free_h ==
    /\ pc = "m_free_h"
    /\ heap' = Do(heap, FreeMatOps("h", seqLength))
    /\ pc' = "m_ret"
    /\ UNCHANGED <<caller, seqLength, tokens, weights, blk, hd, T, att, lin, oob, hist>>

\* line 426: return logits
model_return ==
    /\ pc = "m_ret"
    /\ pc' = "done"
    /\ UNCHANGED <<caller, seqLength, tokens, weights, blk, hd, T, heap, att, lin, oob, hist>>

-----------------------------------------------------------------------------
(* linear() called on its own: one iteration of the i loop per step *)

\* lines 81-96: output[i], with the loads of the j loop
linear_row ==
    /\ pc = "l_loop"
    /\ lin.i < lin.m
    /\ lin' = [lin EXCEPT
                 !.output = (lin.i :> LinearRow(lin.fcInput, lin.w[lin.i], lin.biases[lin.i], lin.n)) @@ @,
                 !.loads = Append(@, LinearLoads(lin.n)),
                 !.i = lin.i + 1]
    /\ heap' = Do(heap, (IF lin.i = 0 THEN <<<<"alloc", Sp("output")>>>> ELSE <<>>)
                        \o <<<<"read", Sp("fcInput")>>, <<"read", WeightsBuf>>,
                             <<"write", Sp("output")>>>>)
    /\ oob' = oob \cup LinearOob("linear", lin.i, lin.n, Cardinality(DOMAIN lin.fcInput))
    /\ UNCHANGED <<pc, caller, seqLength, tokens, weights, blk, hd, T, att, hist>>

\* line 98: return output
linear_return ==
    /\ pc = "l_loop"
    /\ lin.i = lin.m
    /\ pc' = "done"
    /\ UNCHANGED <<caller, seqLength, tokens, weights, blk, hd, T, heap, att, lin, oob, hist>>

-----------------------------------------------------------------------------
(* Specifications *)

AttentionStep ==
    \/ sdpa_alloc
    \/ \E w \in Workers : sdpa_take_tile(w)
    \/ \E w \in Workers : sdpa_cell(w)
    \/ sdpa_return

Next ==
    \/ model_positions
    \/ model_embed
    \/ model_free_positions
    \/ model_call_block
    \/ block_norm1
    \/ block_qkv
    \/ block_split
    \/ block_heads_alloc
    \/ block_call_attention
    \/ AttentionStep
    \/ block_concat
    \/ block_concat_fault
    \/ block_add1
    \/ block_norm2
    \/ block_mlp
    \/ block_add2
    \/ block_free
    \/ block_return
    \/ model_swap
    \/ model_logits
    \/ model_free_h
    \/ model_return

\* one call of model()
Spec == Init /\ [][Next]_vars

\* one call of scaled_dot_product_attention()
SpecAttn == InitAttn /\ [][AttentionStep]_vars

LinearStep == linear_row \/ linear_return

\* one call of linear()
SpecLinear == InitLinear /\ [][LinearStep]_vars

-----------------------------------------------------------------------------
(* The forward pass as a function: the stages composed with no heap, no    *)
(* workers and no schedule.  g is the values the concatenation found past  *)
(* the rows of head_outputs.                                               *)

\* the value of e, computed once
Eval(e) == CHOOSE v \in {e} : v = v

SdpaRef(Q, K, n, depth) ==
    [i \in 0..n - 1 |-> [j \in 0..n - 1 |-> CellBody(Q, K, depth, <<>>, i, j).val]]

BlockRef(x, bw, n, g) ==
    LET nx  == Eval(norm(x, n, EMBEDDING_SIZE))
        Q   == Eval([i \in 0..n - 1 |-> ApplyLayer(nx[i], bw.q_mlp)])
        K   == Eval([i \in 0..n - 1 |-> ApplyLayer(nx[i], bw.k_mlp)])
        Qh  == Eval(SplitHeads(Q, n))
        Kh  == Eval(SplitHeads(K, n))
        ho  == Eval([h \in 0..NUM_HEADS - 1 |-> SdpaRef(Qh[h], Kh[h], n, HEAD_DIM)])
        a   == Eval(Concat(ho, n, EMBEDDING_SIZE, g))
        xa  == Eval(matrix_add(x, a, n, EMBEDDING_SIZE))
        nxa == Eval(norm(xa, n, EMBEDDING_SIZE))
        m   == Eval([i \in 0..n - 1 |-> MlpRow(nxa[i], bw)])
    IN  Eval(matrix_add(xa, m, n, EMBEDDING_SIZE))

RECURSIVE StackRef(_, _, _, _, _)
StackRef(x, w, n, g, k) ==
    IF k = 0 THEN Eval(x)
    ELSE BlockRef(StackRef(x, w, n, g, k - 1), w.blocks[k - 1], n, g[k])

Forward(tok, n, w, g) ==
    ApplyLayer(StackRef(Embed(tok, positions_for(n, 0), w, n), w, n, g, NUM_BLOCKS)[n - 1],
               w.logits_mlp)

Cells(n) == (0..n - 1) \X (0..n - 1)

InBlock == pc \in {"b_norm1", "b_qkv", "b_split", "b_heads_alloc", "b_heads", "s_alloc",
                   "s_par", "b_add1", "b_norm2", "b_mlp", "b_add2", "b_free", "b_ret"}

\* the entry of the call of block() in progress: x as passed, its allocations
Entry == hist.xin[Len(hist.xin)]

AfterAdd1 == pc \in {"b_norm2", "b_mlp", "b_add2", "b_free", "b_ret"}

AfterAdd2 == pc \in {"b_free", "b_ret"}

ZeroAttention(bw) == IsZeroLayer(bw.q_mlp) /\ IsZeroLayer(bw.k_mlp) /\ IsZeroLayer(bw.v_mlp)

IsZeroMatrix(x, n, numCol) == \A i \in 0..n - 1 : \A j \in 0..numCol - 1 : x[i][j] = 0

\* sum over k in [0, depth) of a[k] * b[k]
Dot(a, b, depth) == SumTo([k \in 0..depth - 1 |-> fmul(a[k], b[k])], depth)

\* 1 / sqrt(depth) on the grid
InvSqrt(depth) == (Unit * Unit) \div isqrt(depth * Unit * Unit)

-----------------------------------------------------------------------------
(* Properties *)

\* C1: after the concatenation of block(), a has seqLength rows of
\* EMBEDDING_SIZE columns, and for every position i, head h and column c in
\* [0, HEAD_DIM), element c is an element of row i of head h's output (one the
\* attention wrote) and a[i][h * HEAD_DIM + c] is that element.
C1_ConcatCopiesWrittenElements ==
    pc = "b_add1" =>
        /\ DOMAIN T.a = 0..seqLength - 1
        /\ \A i \in 0..seqLength - 1 :
              /\ DOMAIN T.a[i] = 0..EMBEDDING_SIZE - 1
              /\ \A h \in 0..NUM_HEADS - 1 : \A c \in 0..HEAD_DIM - 1 :
                    /\ c \in DOMAIN T.head_outputs[h][i]
                    /\ T.a[i][h * HEAD_DIM + c] = T.head_outputs[h][i][c]

\* C2: a call of model() with seqLength = 1 never accesses an index outside
\* the buffer it is accessing and never faults.
C2_SingleTokenNoFault ==
    seqLength = 1 => oob = {} /\ pc # "fault"

\* C3: in the parallel tiled loop, under every assignment and interleaving of
\* tiles to workers, every cell written lies in [0, n) x [0, n), has been
\* written once and by one tile task, no output cell is read, no store falls
\* outside the output, and at the return all n * n cells have been written.
C3_EachCellWrittenOnce ==
    /\ \A c \in DOMAIN att.out :
          /\ c \in Cells(att.n)
          /\ att.out[c].n = 1
          /\ Cardinality(att.out[c].by) = 1
    /\ att.reads = {}
    /\ \A e \in oob : e[1] # "sdpa_store"
    /\ pc = "done" => DOMAIN att.out = Cells(att.n)

\* C3: the attention has returned for a sequence longer than one tile, and
\* different tile tasks have written different cells.
C3_Witness ==
    /\ pc = "done"
    /\ att.n > block_size
    /\ \E c \in DOMAIN att.out : \E d \in DOMAIN att.out : att.out[c].by # att.out[d].by

\* C4: scaled_dot_product_attention(Q, K, V, n, depth) returns an n x n matrix
\* with output[i][j] = (sum over k < depth of Q[i][k] * K[j][k]) / sqrt(depth),
\* whatever V is and whatever the tiles are.
C4_ScaledDotProducts ==
    pc = "done" =>
        /\ DOMAIN T.head_outputs[0] = 0..att.n - 1
        /\ \A i \in 0..att.n - 1 :
              /\ DOMAIN T.head_outputs[0][i] = 0..att.n - 1
              /\ \A j \in 0..att.n - 1 :
                    T.head_outputs[0][i][j]
                        = fmul(Dot(att.Q[i], att.K[j], att.depth), InvSqrt(att.depth))

\* C4: the attention has returned a matrix with a non-zero score for a
\* sequence length that is not a multiple of the tile size and a depth of two
\* SIMD chunks.
C4_Witness ==
    /\ pc = "done"
    /\ att.n > block_size
    /\ att.n % block_size # 0
    /\ att.depth = 2 * LANES
    /\ \E i \in 0..att.n - 1 : \E j \in 0..att.n - 1 :
          /\ j >= block_size
          /\ T.head_outputs[0][i][j] # 0
          /\ T.head_outputs[0][i][j] # Dot(att.Q[i], att.K[j], att.depth)

\* C5: linear(fcInput, weights, biases, n, m), n a multiple of 4, returns m
\* elements with output[i] = biases[i] + sum over j < n of weights[i][j] *
\* fcInput[j]; the loads of each output element hit every index of [0, n)
\* once and no index >= n.
C5_LinearIsBiasPlusDot ==
    /\ \A i \in DOMAIN lin.output :
          lin.output[i] = lin.biases[i] + Dot(lin.w[i], lin.fcInput, lin.n)
    /\ \A r \in 1..Len(lin.loads) :
          /\ \A j \in 0..lin.n - 1 :
                Cardinality({k \in 1..Len(lin.loads[r]) : lin.loads[r][k] = j}) = 1
          /\ \A k \in 1..Len(lin.loads[r]) : lin.loads[r][k] \in 0..lin.n - 1
    /\ oob = {}
    /\ pc = "done" => DOMAIN lin.output = 0..lin.m - 1 /\ Len(lin.loads) = lin.m

\* C5: linear() has returned several elements from an input of two SIMD
\* chunks, one of them different from its bias.
C5_Witness ==
    /\ pc = "done"
    /\ lin.m > 1
    /\ lin.n = 2 * LANES
    /\ \E i \in 0..lin.m - 1 : lin.output[i] # lin.biases[i]

\* C6: during a call of model() no buffer is read or written after it has
\* been freed, and the x passed to block() stays allocated while block() runs.
C6_NoUseAfterFree ==
    /\ \A b \in heap.bad : b[1] # "use_after_free"
    /\ InBlock => \A id \in Entry.ids : heap.st[id] = "live"

\* C6: model() has returned for several positions, after both blocks freed
\* their intermediates and the hidden states were freed.
C6_Witness ==
    /\ pc = "done"
    /\ seqLength > 1
    /\ Len(hist.xout) = NUM_BLOCKS
    /\ \A id \in hist.xout[NUM_BLOCKS].ids : heap.st[id] = "freed"

\* C7: whatever the assignment and order of the attention tile tasks, each
\* head's score matrix is the same function of its Q and K, and the logits
\* are the same function of the tokens, the weights and the values the
\* concatenation read.
C7_ScheduleIndependentLogits ==
    /\ (pc = "b_heads" /\ hd > 0) =>
          T.head_outputs[hd - 1] = SdpaRef(att.Q, att.K, att.n, att.depth)
    /\ pc = "done" => T.logits = Forward(tokens, seqLength, weights, hist.garb)

\* C7: model() has returned logits, not all equal, for a sequence whose
\* attention was split into several tile tasks.
C7_Witness ==
    /\ pc = "done"
    /\ seqLength > block_size
    /\ \E c \in DOMAIN att.out : \E d \in DOMAIN att.out : att.out[c].by # att.out[d].by
    /\ \E i \in DOMAIN T.logits : \E j \in DOMAIN T.logits : T.logits[i] # T.logits[j]

\* C8: when block() returns, zero q/k/v layers give a = 0 and x_added = x,
\* a zero second MLP layer gives m = 0 and output = x_added, and both give
\* output = x, for every sequence length.
C8_ResidualIdentity ==
    pc = "b_ret" =>
        /\ ZeroAttention(BW) =>
              IsZeroMatrix(T.a, seqLength, EMBEDDING_SIZE) /\ T.x_added = T.x
        /\ IsZeroLayer(BW.second_block_MLP) =>
              IsZeroMatrix(T.m, seqLength, EMBEDDING_SIZE) /\ T.output = T.x_added
        /\ (ZeroAttention(BW) /\ IsZeroLayer(BW.second_block_MLP)) => T.output = T.x

\* C9: the first block receives h[i][j] = wte[tokens[i]][j] + wpe[i][j], the
\* k-th call of block() is for block k - 1, each later call receives the
\* whole output of the call before it (the same buffers), each output is
\* block() of its input, and model() returns VOCAB_SIZE logits, the
\* logits_mlp projection of the last row of the last block's output.
C9_ModelPipeline ==
    /\ Len(hist.xin) <= NUM_BLOCKS
    /\ Len(hist.xout) \in {Len(hist.xin), Len(hist.xin) - 1}
    /\ \A k \in 1..Len(hist.xin) :
          /\ hist.xin[k].blk = k - 1
          /\ k = 1 => hist.xin[k].data =
                        [i \in 0..seqLength - 1 |-> [j \in 0..EMBEDDING_SIZE - 1 |->
                            weights.wte[tokens[i]][j] + weights.wpe[i][j]]]
          /\ k > 1 => /\ hist.xin[k].data = hist.xout[k - 1].data
                      /\ hist.xin[k].ids = hist.xout[k - 1].ids
    /\ pc = "m_swap" =>
          hist.xout[Len(hist.xout)].data
              = BlockRef(hist.xin[Len(hist.xout)].data, weights.blocks[Len(hist.xout) - 1],
                         seqLength, hist.garb[Len(hist.xout)])
    /\ pc = "done" =>
          /\ Len(hist.xout) = NUM_BLOCKS
          /\ DOMAIN T.logits = 0..VOCAB_SIZE - 1
          /\ T.logits = linear(hist.xout[NUM_BLOCKS].data[seqLength - 1],
                               weights.logits_mlp.weights, weights.logits_mlp.biases,
                               EMBEDDING_SIZE, VOCAB_SIZE)

\* C9: model() has returned for several positions whose final rows differ in
\* their projection, after the blocks changed the hidden state.
C9_Witness ==
    /\ pc = "done"
    /\ seqLength > 1
    /\ hist.xout[NUM_BLOCKS].data # hist.xin[1].data
    /\ T.logits # ApplyLayer(hist.xout[NUM_BLOCKS].data[0], weights.logits_mlp)

\* C10: while block() runs and when it returns, x holds the values it was
\* passed, nothing has been written into x's buffers or into the weights,
\* x_added = x + a with the x passed in, output = x_added + m, and the
\* returned tensor's buffers are live, allocated during the call and none of
\* x's.
C10_BlockFrame ==
    InBlock =>
        /\ T.x = Entry.data
        /\ MatIds(heap, "x", seqLength) = Entry.ids
        /\ heap.wr \cap Entry.ids = {}
        /\ heap.ptr[WeightsBuf] \notin heap.wr
        /\ weights \in WeightSets
        /\ AfterAdd1 => T.x_added = matrix_add(Entry.data, T.a, seqLength, EMBEDDING_SIZE)
        /\ AfterAdd2 => T.output = matrix_add(T.x_added, T.m, seqLength, EMBEDDING_SIZE)
        /\ pc = "b_ret" =>
              /\ Cardinality(MatIds(heap, "output", seqLength)) = seqLength + 1
              /\ \A id \in MatIds(heap, "output", seqLength) :
                    /\ heap.st[id] = "live"
                    /\ id > Entry.base
                    /\ id \notin Entry.ids

\* C10: block 1 is about to return after both residual additions, with a
\* normalized x that differs from x and a normalized x_added that differs
\* from x_added.
C10_Witness ==
    /\ pc = "b_ret"
    /\ blk = 1
    /\ seqLength > 1
    /\ T.normalized_x # T.x
    /\ T.normalized_x_added # T.x_added
    /\ T.output # T.x

\* the allocations that are live
LiveIds(hp) == {id \in 1..Len(hp.st) : hp.st[id] = "live"}

\* C11: when model() returns, every buffer allocated during the call has
\* been freed, and freed once: the only live allocations are the returned
\* logits and the weight set, no free hit a freed or unset pointer, and the
\* weight set has not been written.
C11_OwnershipBalance ==
    pc = "done" =>
        /\ LiveIds(heap) = {heap.ptr[Sp("logits")], heap.ptr[WeightsBuf]}
        /\ \A b \in heap.bad : b[1] \notin {"double_free", "free_null"}
        /\ heap.ptr[WeightsBuf] \notin heap.wr

====
